---- MODULE Spec2Model ----
(***************************************************************************)
(* Model of cross-seed's Deluge client adapter (src/clients/Deluge.ts) and *)
(* of the search pre-filter (src/preFilter.ts).                            *)
(*                                                                         *)
(* The adapter is one object (msgId, loggedIn, delugeCookie, enLabeled)    *)
(* driven by asynchronous operations.  Every `await this.call(...)` is a   *)
(* suspension point: the synchronous prefix of an operation runs up to the *)
(* axios.post, the Deluge web server (or the transport) produces a         *)
(* response, and the continuation runs up to the next post or to the end.  *)
(* Un-awaited promises (labelEnabled, setLabel) are tasks of their own.    *)
(*                                                                         *)
(* The pre-filter functions are pure apart from the log, the runtime       *)
(* configuration and the timestamp store; each has a specification of its  *)
(* own that draws its inputs in Init and calls it once: SpecFilter         *)
(* (filterByContent), SpecBatch (filterAllByContent), SpecDupes            *)
(* (filterDupes), SpecTimestamps (filterTimestamps).  SpecWrap is the      *)
(* adapter started with msgId just below its ceiling.                      *)
(***************************************************************************)
EXTENDS Integers, Sequences, FiniteSets, TLC

\* ---- bounds of the model -------------------------------------------------
MaxOps == 2          \* public operations (validateConfig, inject) started
MaxConcurrent == 2   \* public operations in progress at the same time
MaxSessions == 2     \* sessions the server hands out

\* ---- program constants ---------------------------------------------------
MsgIdCeiling == 1024

Torrents == {"t1", "t2"}   \* metafiles offered to inject (name + infoHash)
Hashes == {"h1"}           \* infoHash values a searchee can carry
NoHash == "undefined"      \* searchee.infoHash absent

VARIABLES
    msgId,          \* Deluge.msgId
    wire,           \* the body.id of every request posted, in posting order
    loggedIn,       \* Deluge.loggedIn
    delugeCookie,   \* Deluge.delugeCookie: 0 is "", n > 0 a session cookie
    delugeWebUrl,   \* which credentials the configured URL carries
    enLabeled,      \* Deluge.enLabeled: 0 is undefined, n > 0 the promise of task n
    tasks,          \* the asynchronous operations started so far, in start order
    validSessions,  \* server: session cookies it accepts
    sessionCount,   \* server: sessions handed out so far
    lostSessions,   \* server: sessions it dropped while the adapter was logged
                    \* in with them
    added,          \* server: torrents present after core.add_torrent_file
    plugins,        \* server: list of enabled plugins
    searchee,       \* preFilter: the searchee under classification
    runtimeConfig,  \* preFilter: what getRuntimeConfig() returns
    prefilterResult, \* preFilter: what filterByContent returned, "none" before
    searchees,      \* preFilter: the batch handed to filterAllByContent/filterDupes
    batchOp,        \* preFilter: which of the two has returned, "none" before
    output,         \* preFilter: the list it returned
    logged,         \* preFilter: the log lines emitted, in order
    enabledIndexers, \* preFilter: ids getEnabledIndexers() returns
    searcheeRow,    \* db: the searchee table has a row of the searchee's name
    timestampRows,  \* db: per indexer id, the timestamp row of that searchee
    now,            \* Date.now()
    eligible        \* preFilter: what filterTimestamps resolved to, "none" before

vars == <<msgId, wire, loggedIn, delugeCookie, delugeWebUrl, enLabeled, tasks,
          validSessions, sessionCount, lostSessions, added, plugins,
          searchee, runtimeConfig, prefilterResult,
          searchees, batchOp, output, logged,
          enabledIndexers, searcheeRow, timestampRows, now, eligible>>

clientVars == <<loggedIn, delugeCookie, enLabeled>>
filterVars == <<searchee, runtimeConfig, prefilterResult>>
batchVars == <<searchees, batchOp, output, logged>>
stampVars == <<enabledIndexers, searcheeRow, timestampRows, now, eligible>>
delugeVars == <<msgId, wire, clientVars, delugeWebUrl, tasks,
                validSessions, sessionCount, lostSessions, added, plugins>>
\* what no step of the adapter changes
otherVars == <<delugeWebUrl, filterVars, batchVars, stampVars>>
serverVars == <<validSessions, sessionCount, lostSessions, added, plugins>>

\* ---- responses -----------------------------------------------------------
\* An AxiosResponse as the code reads it: data.result, data.error (<<>> is
\* JSON null, otherwise the words of error.message), headers["set-cookie"]
\* (0 when absent), and the payloads the code indexes into.
NoTorrents == [h \in Hashes |-> "absent"]

Response(result, error, cookie, torrents, list) ==
    [status |-> "ok", result |-> result, error |-> error, cookie |-> cookie,
     torrents |-> torrents, list |-> list]

Pending ==
    [status |-> "pending", result |-> "undefined", error |-> <<>>, cookie |-> 0,
     torrents |-> NoTorrents, list |-> <<>>]

\* call() resolves null when axios.post rejects
NullResponse == [Pending EXCEPT !.status = "null"]

NoReq == [method |-> "none", id |-> 0, cookie |-> 0]

\* ---- JavaScript helpers --------------------------------------------------
\* truthiness of a data.result value
Truthy(v) == v \notin {"undefined", "null", "false"}

\* String.prototype.includes / Array.prototype.includes on word sequences
includes(s, sub) ==
    \E i \in 0..(Len(s) - Len(sub)) : \A j \in 1..Len(sub) : s[i + j] = sub[j]

\* ---- tasks ---------------------------------------------------------------
NewTask(kind, torrent, hash, parent) ==
    [kind |-> kind, torrent |-> torrent, hash |-> hash,
     parent |-> parent,        \* the task that started it un-awaited, 0 for a caller
     guard |-> "none",         \* setLabel: what the enLabeled promise had settled
                               \* to when `if (this.enLabeled)` ran
     pc |-> "start", method |-> "none",
     req |-> NoReq, resp |-> Pending,
     result |-> "pending", fault |-> "none",
     sent |-> <<>>,            \* methods this task posted, in order
     ids |-> <<>>,             \* the body.id of each of them
     sentUnauth |-> FALSE,     \* it posted a non-auth method while loggedIn was false
     lostAt |-> 0,             \* index in sent of its last sendCall begun after
                               \* the server dropped the session, 0 if none
     seen |-> Pending,         \* inject: reply to web.update_ui;
                               \* setLabel: reply to the first label.set_torrent
     addReply |-> Pending]     \* inject: reply to core.add_torrent_file

Return(tk, v) == [tk EXCEPT !.pc = "done", !.result = v]
Throw(tk, e) == [tk EXCEPT !.pc = "done", !.fault = e]

PublicKinds == {"validateConfig", "inject"}
Started == Cardinality({i \in DOMAIN tasks : tasks[i].kind \in PublicKinds})
Running ==
    Cardinality({i \in DOMAIN tasks :
                    tasks[i].kind \in PublicKinds /\ tasks[i].pc # "done"})
CanStart == Started < MaxOps /\ Running < MaxConcurrent

\* ---- call ----------------------------------------------------------------
\* body.id = ++this.msgId; if (this.msgId > 1024) this.msgId = 0
\* the counter update, were it to wrap on reaching the ceiling
nextMsgIdWrapsAtCeiling(m) == IF m + 1 >= MsgIdCeiling THEN 0 ELSE m + 1

\* the counter update, were the increment lost (the id taken from a copy of
\* the counter and the counter itself written back unchanged)
nextMsgIdLostUpdate(m) == IF m + 1 > MsgIdCeiling THEN 0 ELSE m

nextMsgId(m) == IF m + 1 > MsgIdCeiling THEN 0 ELSE m + 1

\* the synchronous part of call(): the request leaves with the cookie of now
call(tk, method, cookie) ==
    [tk EXCEPT !.req = [method |-> method, id |-> msgId + 1, cookie |-> cookie],
               !.resp = Pending,
               !.sent = Append(@, method),
               !.ids = Append(@, msgId + 1)]

\* ---- authenticate, sendCall: synchronous prefixes -------------------------
authenticateStart(tk, li, cookie) ==
    IF ~li
    THEN [call(tk, "auth.login", cookie) EXCEPT !.pc = "login"]
    ELSE [call(tk, "auth.check_session", cookie) EXCEPT !.pc = "check"]

sendCallStart(tk, method, li, cookie) ==
    LET t1 == [tk EXCEPT !.method = method,
                         !.lostAt = IF li /\ cookie \in lostSessions
                                    THEN Len(tk.sent) + 1 ELSE @]
    IN  IF ~li
        THEN authenticateStart(t1, li, cookie)
        ELSE [call(t1, method, cookie) EXCEPT !.pc = "call"]

\* sendCall after authenticate() has resolved: its result is not looked at
sendCallAfterAuth(tk, li, cookie) ==
    [call(tk, tk.method, cookie) EXCEPT !.pc = "call",
                                        !.sentUnauth = @ \/ ~li]

\* what sendCall returns (or throws) for the response to the method
sendCallReturn(resp) ==
    IF resp.status = "null"
    THEN [fault |-> "TypeError", result |-> "undefined", message |-> <<>>,
          torrents |-> NoTorrents, list |-> <<>>]
    ELSE IF resp.error = <<>>
    THEN [fault |-> "none", result |-> resp.result, message |-> <<>>,
          torrents |-> resp.torrents, list |-> resp.list]
    ELSE [fault |-> "none", result |-> "undefined", message |-> resp.error,
          torrents |-> NoTorrents, list |-> <<>>]

\* ---- preFilter: data -------------------------------------------------------
\* Names are sequences of the tokens the separators of a release name delimit;
\* a path is the sequence of its components, <<>> when searchee.path is absent.
MaxFiles == 2   \* files of a searchee

SeasonTokens == {"S01"}
EpisodeTokens == {"E01"}

Names ==
    {<<"Show", "S01", "E01">>, <<"Show", "S01", "1080p">>, <<"Movie", "2020">>}

FileNames == {<<"ep", ".mkv">>, <<"ep", ".MKV">>, <<"info", ".nfo">>, <<"README">>}

Paths ==
    {<<>>,
     << <<"ep", ".mkv">> >>,
     << <<"Show", "S01", "1080p">>, <<"ep", ".mkv">> >>,
     << <<"Show", "S01", "E01">>, <<"ep", ".mkv">> >>,
     << <<"downloads">>, <<"ep", ".mkv">> >>,
     << <<"Show", "S01", "1080p">>, <<"extras">>, <<"ep", ".mkv">> >>}

FileLists == UNION {[1..n -> FileNames] : n \in 1..MaxFiles}

Searchees == [name : Names, files : FileLists, path : Paths]

RuntimeConfigs ==
    [includeEpisodes : BOOLEAN, includeNonVideos : BOOLEAN,
     includeSingleEpisodes : BOOLEAN]

NoSearchee == [name |-> <<>>, files |-> <<>>, path |-> <<>>]
NoRuntimeConfig ==
    [includeEpisodes |-> FALSE, includeNonVideos |-> FALSE,
     includeSingleEpisodes |-> FALSE]

\* ---- Init ----------------------------------------------------------------
FilterIdle ==
    /\ searchee = NoSearchee
    /\ runtimeConfig = NoRuntimeConfig
    /\ prefilterResult = "none"

BatchIdle ==
    /\ searchees = <<>>
    /\ batchOp = "none"
    /\ output = <<>>
    /\ logged = <<>>

\* ---- preFilter: the timestamp store ------------------------------------------
MaxIndexers == 2   \* rows of the indexer table
MaxTime == 3       \* Date.now(); search times lie in 1..MaxTime
MaxDuration == 2   \* largest excludeOlder / excludeRecentSearch

Indexers == 1..MaxIndexers

\* SQL NULL, which the driver hands over as null
SqlNull == -1

\* a row of the timestamp table; the left outer join yields NULLs without one
NoRow == [first_searched |-> SqlNull, last_searched |-> SqlNull]
TimestampRows ==
    {r \in [first_searched : 1..MaxTime, last_searched : 1..MaxTime] :
        r.first_searched <= r.last_searched}

StampIdle ==
    /\ enabledIndexers = {}
    /\ searcheeRow = FALSE
    /\ timestampRows = [i \in Indexers |-> NoRow]
    /\ now = MaxTime
    /\ eligible = "none"

Init ==
    /\ FilterIdle
    /\ BatchIdle
    /\ StampIdle
    /\ msgId = 0
    /\ wire = <<>>
    /\ loggedIn = FALSE
    /\ delugeCookie = 0
    /\ delugeWebUrl \in {[username |-> FALSE, password |-> TRUE],
                         [username |-> TRUE, password |-> FALSE]}
    /\ enLabeled = 0
    /\ tasks = <<>>
    /\ validSessions = {}
    /\ sessionCount = 0
    /\ lostSessions = {}
    /\ added = {}
    /\ plugins \in {<<"Label">>, <<"Blocklist">>}

\* ---- public operations: synchronous prefixes ------------------------------
validateConfig ==
    /\ CanStart
    /\ LET tk == NewTask("validateConfig", "none", NoHash, 0)
       IN  IF delugeWebUrl.username /\ ~delugeWebUrl.password
           THEN /\ tasks' = Append(tasks, Throw(tk, "CrossSeedError: password"))
                /\ UNCHANGED <<msgId, wire>>
           ELSE /\ tasks' = Append(tasks, authenticateStart(tk, loggedIn, delugeCookie))
                /\ msgId' = nextMsgId(msgId)
                /\ wire' = Append(wire, msgId + 1)
    /\ UNCHANGED <<clientVars, otherVars, serverVars>>

inject(newTorrent, infoHash) ==
    /\ CanStart
    /\ LET tk == NewTask("inject", newTorrent, infoHash, 0)
           method == IF infoHash # NoHash THEN "web.update_ui"
                                          ELSE "core.add_torrent_file"
       IN  tasks' = Append(tasks, sendCallStart(tk, method, loggedIn, delugeCookie))
    /\ msgId' = nextMsgId(msgId)
    /\ wire' = Append(wire, msgId + 1)
    /\ UNCHANGED <<clientVars, otherVars, serverVars>>

\* ---- the Deluge web server and the transport ------------------------------
Awaiting(t) ==
    /\ t \in DOMAIN tasks
    /\ tasks[t].pc # "done"
    /\ tasks[t].resp.status = "pending"

Requests(t, methods) == Awaiting(t) /\ tasks[t].req.method \in methods

Authorized(t) == tasks[t].req.cookie \in validSessions

Respond(t, r) == tasks' = [tasks EXCEPT ![t].resp = r]

RpcMethods ==
    {"web.update_ui", "core.add_torrent_file", "core.get_enabled_plugins",
     "label.set_torrent", "label.add"}

\* axios.post rejects: the server is unreachable or the request times out
noResponse(t) ==
    /\ Awaiting(t)
    /\ Respond(t, NullResponse)
    /\ UNCHANGED <<msgId, wire, clientVars, otherVars, serverVars>>

\* auth.login with the right password: result true and a Set-Cookie header
loginAccepted(t) ==
    /\ Requests(t, {"auth.login"})
    /\ sessionCount < MaxSessions
    /\ sessionCount' = sessionCount + 1
    /\ validSessions' = validSessions \cup {sessionCount + 1}
    /\ Respond(t, Response("true", <<>>, sessionCount + 1, NoTorrents, <<>>))
    /\ UNCHANGED <<msgId, wire, clientVars, otherVars, lostSessions, added, plugins>>

\* auth.login with a password the server does not accept: result false
loginRejected(t) ==
    /\ Requests(t, {"auth.login"})
    /\ Respond(t, Response("false", <<>>, 0, NoTorrents, <<>>))
    /\ UNCHANGED <<msgId, wire, clientVars, otherVars, serverVars>>

checkSessionReply(t) ==
    /\ Requests(t, {"auth.check_session"})
    /\ Respond(t, Response(IF Authorized(t) THEN "true" ELSE "false",
                           <<>>, 0, NoTorrents, <<>>))
    /\ UNCHANGED <<msgId, wire, clientVars, otherVars, serverVars>>

\* any other method without a valid session cookie
notAuthenticatedReply(t) ==
    /\ Requests(t, RpcMethods)
    /\ ~Authorized(t)
    /\ Respond(t, Response("undefined", <<"Not", "authenticated">>, 0,
                           NoTorrents, <<>>))
    /\ UNCHANGED <<msgId, wire, clientVars, otherVars, serverVars>>

\* web.update_ui: the torrent list, in which a hash is absent or has a state
updateUiReply(t, torrents) ==
    /\ Requests(t, {"web.update_ui"})
    /\ Authorized(t)
    /\ Respond(t, Response("object", <<>>, 0, torrents, <<>>))
    /\ UNCHANGED <<msgId, wire, clientVars, otherVars, serverVars>>

\* core.add_torrent_file of a torrent the session does not hold yet
addTorrentAccepted(t) ==
    /\ Requests(t, {"core.add_torrent_file"})
    /\ Authorized(t)
    /\ tasks[t].torrent \notin added
    /\ added' = added \cup {tasks[t].torrent}
    /\ Respond(t, Response("id", <<>>, 0, NoTorrents, <<>>))
    /\ UNCHANGED <<msgId, wire, clientVars, otherVars, validSessions, sessionCount,
                   lostSessions, plugins>>

\* core.add_torrent_file refused: duplicate, or any other error
addTorrentError(t) ==
    /\ Requests(t, {"core.add_torrent_file"})
    /\ Authorized(t)
    /\ Respond(t, Response("undefined",
                           IF tasks[t].torrent \in added
                           THEN <<"Torrent", "already", "in", "session">>
                           ELSE <<"Invalid", "torrent", "file">>,
                           0, NoTorrents, <<>>))
    /\ UNCHANGED <<msgId, wire, clientVars, otherVars, serverVars>>

enabledPluginsReply(t) ==
    /\ Requests(t, {"core.get_enabled_plugins"})
    /\ Authorized(t)
    /\ Respond(t, Response("array", <<>>, 0, NoTorrents, plugins))
    /\ UNCHANGED <<msgId, wire, clientVars, otherVars, serverVars>>

\* label.set_torrent / label.add carried out: result null
labelReply(t) ==
    /\ Requests(t, {"label.set_torrent", "label.add"})
    /\ Authorized(t)
    /\ Respond(t, Response("null", <<>>, 0, NoTorrents, <<>>))
    /\ UNCHANGED <<msgId, wire, clientVars, otherVars, serverVars>>

\* label.set_torrent for a label the server does not know; label.add of a
\* label it cannot create
labelError(t) ==
    /\ Requests(t, {"label.set_torrent", "label.add"})
    /\ Authorized(t)
    /\ Respond(t, Response("undefined",
                           IF tasks[t].req.method = "label.set_torrent"
                           THEN <<"Unknown", "Label">>
                           ELSE <<"Invalid", "label">>,
                           0, NoTorrents, <<>>))
    /\ UNCHANGED <<msgId, wire, clientVars, otherVars, serverVars>>

\* the server drops a session (expiry, restart)
invalidate(s) ==
    /\ s \in validSessions
    /\ validSessions' = validSessions \ {s}
    /\ lostSessions' = IF loggedIn /\ delugeCookie = s
                       THEN lostSessions \cup {s} ELSE lostSessions
    /\ UNCHANGED <<msgId, wire, clientVars, otherVars, tasks, sessionCount, added, plugins>>

\* ---- continuations ---------------------------------------------------------
Resumable(t) ==
    /\ t \in DOMAIN tasks
    /\ tasks[t].pc # "done"
    /\ tasks[t].resp.status # "pending"

\* authenticate() after its await: the fault it throws, and the loggedIn and
\* delugeCookie it leaves behind (it returns this.loggedIn)
authenticate(tk) ==
    LET response == tk.resp
    IN  IF tk.pc = "login"
        THEN IF response.status = "null"
             THEN [fault |-> "CrossSeedError: Could not reach deluge",
                   loggedIn |-> loggedIn, cookie |-> delugeCookie]
             ELSE IF Truthy(response.result) /\ response.cookie # 0
             THEN [fault |-> "none", loggedIn |-> TRUE, cookie |-> response.cookie]
             ELSE [fault |-> "none", loggedIn |-> loggedIn, cookie |-> delugeCookie]
        ELSE [fault |-> "none", loggedIn |-> (response.status # "null"),
              cookie |-> delugeCookie]

\* labelEnabled(): synchronous prefix
labelEnabledStart(parent, li, cookie) ==
    sendCallStart(NewTask("labelEnabled", "none", NoHash, parent),
                  "core.get_enabled_plugins", li, cookie)

\* validateConfig after `await this.authenticate()`
validateConfigResume(t) ==
    /\ Resumable(t)
    /\ tasks[t].kind = "validateConfig"
    /\ LET tk == tasks[t]
           a == authenticate(tk)
       IN  /\ loggedIn' = a.loggedIn
           /\ delugeCookie' = a.cookie
           /\ IF a.fault # "none"
              THEN /\ tasks' = [tasks EXCEPT ![t] = Throw(tk, a.fault)]
                   /\ UNCHANGED <<msgId, wire, enLabeled>>
              ELSE IF ~a.loggedIn
              THEN /\ tasks' = [tasks EXCEPT ![t] =
                          Throw(tk, "CrossSeedError: failed to authenticate")]
                   /\ UNCHANGED <<msgId, wire, enLabeled>>
              ELSE /\ tasks' = Append([tasks EXCEPT ![t] = Return(tk, "void")],
                                      labelEnabledStart(t, a.loggedIn, a.cookie))
                   /\ enLabeled' = Len(tasks) + 1
                   /\ msgId' = nextMsgId(msgId)
                   /\ wire' = Append(wire, msgId + 1)
    /\ UNCHANGED <<otherVars, serverVars>>

\* the catch block of checkCompleted: its log message indexes the `response`
\* declared outside the try block, which is never assigned
checkCompletedCatch(response) ==
    IF response = "undefined" THEN "TypeError" ELSE "false"

\* checkCompleted, were it to pass any torrent the client lists
checkCompletedAnyState(ret, infohash) ==
    IF \/ ret.fault # "none"
       \/ ret.result = "undefined"
       \/ ret.torrents[infohash] = "absent"
    THEN checkCompletedCatch("undefined")
    ELSE "true"

\* checkCompleted after `await this.sendCall("web.update_ui", ...)`:
\* "true", "undefined" (it falls off the end of the try block) or what the
\* catch block produces
checkCompleted(ret, infohash) ==
    IF \/ ret.fault # "none"
       \/ ret.result = "undefined"
       \/ ret.torrents[infohash] = "absent"
    THEN checkCompletedCatch("undefined")
    ELSE IF ret.torrents[infohash] = "Seeding" THEN "true" ELSE "undefined"

\* inject after `await this.checkCompleted(...)` when the check did not pass
injectNotCompleted(tk, completed) ==
    IF completed \in {"undefined", "false"}
    THEN Return(tk, "TORRENT_NOT_COMPLETE")
    ELSE Throw(tk, completed)

\* a fault thrown inside sendCall reaches the operation that awaits it
sendCallThrows(tk, ret) ==
    IF tk.kind = "inject" /\ tk.method = "web.update_ui"
    THEN injectNotCompleted(tk, checkCompleted(ret, tk.hash))
    ELSE Throw(tk, ret.fault)

\* sendCall after `await this.authenticate()`
sendCallResume(t) ==
    /\ Resumable(t)
    /\ tasks[t].kind # "validateConfig"
    /\ tasks[t].pc = "login"
    /\ LET tk == tasks[t]
           a == authenticate(tk)
       IN  /\ loggedIn' = a.loggedIn
           /\ delugeCookie' = a.cookie
           /\ IF a.fault # "none"
              THEN /\ tasks' = [tasks EXCEPT ![t] =
                          sendCallThrows(tk, [sendCallReturn(NullResponse)
                                                EXCEPT !.fault = a.fault])]
                   /\ UNCHANGED <<msgId, wire>>
              ELSE /\ tasks' = [tasks EXCEPT ![t] =
                          sendCallAfterAuth(tk, a.loggedIn, a.cookie)]
                   /\ msgId' = nextMsgId(msgId)
                   /\ wire' = Append(wire, msgId + 1)
    /\ UNCHANGED <<enLabeled, otherVars, serverVars>>

\* inject after `await this.checkCompleted(searchee.infoHash)`
checkCompletedResume(t) ==
    /\ Resumable(t)
    /\ tasks[t].kind = "inject"
    /\ tasks[t].pc = "call"
    /\ tasks[t].method = "web.update_ui"
    /\ LET tk == [tasks[t] EXCEPT !.seen = tasks[t].resp]
           completed == checkCompleted(sendCallReturn(tk.resp), tk.hash)
       IN  IF completed = "true"
           THEN /\ tasks' = [tasks EXCEPT ![t] =
                       sendCallStart(tk, "core.add_torrent_file", loggedIn, delugeCookie)]
                /\ msgId' = nextMsgId(msgId)
                /\ wire' = Append(wire, msgId + 1)
           ELSE /\ tasks' = [tasks EXCEPT ![t] = injectNotCompleted(tk, completed)]
                /\ UNCHANGED <<msgId, wire>>
    /\ UNCHANGED <<clientVars, otherVars, serverVars>>

\* inject, were it to count a duplicate as a success
injectResultDuplicateSucceeds(addResult) ==
    IF Truthy(addResult.result) THEN "SUCCESS"
    ELSE IF addResult.message # <<>> /\ includes(addResult.message, <<"already">>)
    THEN "SUCCESS"
    ELSE "FAILURE"

\* inject, were it to take every error message for a duplicate
injectResultAnyMessage(addResult) ==
    IF Truthy(addResult.result) THEN "SUCCESS"
    ELSE IF addResult.message # <<>> THEN "ALREADY_EXISTS"
    ELSE "FAILURE"

\* how inject reads the reply to core.add_torrent_file
injectResult(addResult) ==
    IF Truthy(addResult.result) THEN "SUCCESS"
    ELSE IF addResult.message # <<>> /\ includes(addResult.message, <<"already">>)
    THEN "ALREADY_EXISTS"
    ELSE "FAILURE"

\* setLabel(): synchronous prefix; this.enLabeled is a promise or undefined
setLabelStart(torrenthash, parent, li, cookie) ==
    LET tk == [NewTask("setLabel", torrenthash, NoHash, parent)
                  EXCEPT !.guard = IF enLabeled = 0 THEN "undefined"
                                   ELSE IF tasks[enLabeled].fault # "none"
                                   THEN "rejected"
                                   ELSE tasks[enLabeled].result]
    IN  IF enLabeled # 0
        THEN sendCallStart(tk, "label.set_torrent", li, cookie)
        ELSE Return(tk, "false")

\* inject after `await this.sendCall("core.add_torrent_file", params)`
injectResume(t) ==
    /\ Resumable(t)
    /\ tasks[t].kind = "inject"
    /\ tasks[t].pc = "call"
    /\ tasks[t].method = "core.add_torrent_file"
    /\ LET tk == [tasks[t] EXCEPT !.addReply = tasks[t].resp]
           addResult == sendCallReturn(tk.resp)
       IN  IF addResult.fault # "none"
           THEN /\ tasks' = [tasks EXCEPT ![t] = Throw(tk, addResult.fault)]
                /\ UNCHANGED <<msgId, wire>>
           ELSE IF injectResult(addResult) = "SUCCESS"
           THEN /\ tasks' = Append([tasks EXCEPT ![t] = Return(tk, "SUCCESS")],
                                   setLabelStart(tk.torrent, t, loggedIn, delugeCookie))
                /\ msgId' = IF enLabeled # 0 THEN nextMsgId(msgId) ELSE msgId
                /\ wire' = IF enLabeled # 0 THEN Append(wire, msgId + 1) ELSE wire
           ELSE /\ tasks' = [tasks EXCEPT ![t] = Return(tk, injectResult(addResult))]
                /\ UNCHANGED <<msgId, wire>>
    /\ UNCHANGED <<clientVars, otherVars, serverVars>>

\* label requests a setLabel task has posted
labelRequests(tk) ==
    SelectSeq(tk.sent, LAMBDA m : m \in {"label.set_torrent", "label.add"})

\* setLabel, were it to create the label again after the retry
setLabelRetryAgain(n, setResult) ==
    IF n \in {1, 3}
    THEN IF setResult.message # <<>>
            /\ includes(setResult.message, <<"Unknown", "Label">>)
         THEN "label.add"
         ELSE "return"
    ELSE IF n \in {2, 4} THEN "label.set_torrent"
    ELSE "return"

\* what setLabel does once the n-th of its label requests is answered:
\* the method of its next sendCall, or "return"
setLabel(n, setResult) ==
    IF n = 1
    THEN IF setResult.message # <<>>
            /\ includes(setResult.message, <<"Unknown", "Label">>)
         THEN "label.add"
         ELSE "return"
    ELSE IF n = 2 THEN "label.set_torrent"
    ELSE "return"

\* setLabel after each of its `await this.sendCall(...)`
setLabelResume(t) ==
    /\ Resumable(t)
    /\ tasks[t].kind = "setLabel"
    /\ tasks[t].pc = "call"
    /\ LET n == Len(labelRequests(tasks[t]))
           tk == [tasks[t] EXCEPT !.seen = IF n = 1 THEN tasks[t].resp ELSE @]
           setResult == sendCallReturn(tk.resp)
       IN  IF setResult.fault # "none"
           THEN /\ tasks' = [tasks EXCEPT ![t] = Throw(tk, setResult.fault)]
                /\ UNCHANGED <<msgId, wire>>
           ELSE IF setLabel(n, setResult) = "return"
           THEN /\ tasks' = [tasks EXCEPT ![t] = Return(tk, "true")]
                /\ UNCHANGED <<msgId, wire>>
           ELSE /\ tasks' = [tasks EXCEPT ![t] =
                       sendCallStart(tk, setLabel(n, setResult), loggedIn, delugeCookie)]
                /\ msgId' = nextMsgId(msgId)
                /\ wire' = Append(wire, msgId + 1)
    /\ UNCHANGED <<clientVars, otherVars, serverVars>>

\* labelEnabled after `await this.sendCall("core.get_enabled_plugins", [])`
labelEnabledResume(t) ==
    /\ Resumable(t)
    /\ tasks[t].kind = "labelEnabled"
    /\ tasks[t].pc = "call"
    /\ LET tk == tasks[t]
           enabledLabels == sendCallReturn(tk.resp)
       IN  tasks' = [tasks EXCEPT ![t] =
               IF enabledLabels.fault # "none" THEN Throw(tk, enabledLabels.fault)
               ELSE IF enabledLabels.result = "undefined" THEN Throw(tk, "TypeError")
               ELSE Return(tk, IF includes(enabledLabels.list, <<"Label">>)
                               THEN "true" ELSE "false")]
    /\ UNCHANGED <<msgId, wire, clientVars, otherVars, serverVars>>

\* ---- specification of the adapter ------------------------------------------
\* a public operation starts at most one un-awaited task, and the promise
\* enLabeled holds can stem from an earlier validateConfig
MaxTasks == 2 * MaxOps + 1

TorrentLists == [Hashes -> {"absent", "Downloading", "Seeding"}]

Next ==
    \/ validateConfig
    \/ \E newTorrent \in Torrents, infoHash \in Hashes \cup {NoHash} :
          inject(newTorrent, infoHash)
    \/ \E t \in 1..MaxTasks : noResponse(t)
    \/ \E t \in 1..MaxTasks : loginAccepted(t)
    \/ \E t \in 1..MaxTasks : loginRejected(t)
    \/ \E t \in 1..MaxTasks : checkSessionReply(t)
    \/ \E t \in 1..MaxTasks : notAuthenticatedReply(t)
    \/ \E t \in 1..MaxTasks, torrents \in TorrentLists : updateUiReply(t, torrents)
    \/ \E t \in 1..MaxTasks : addTorrentAccepted(t)
    \/ \E t \in 1..MaxTasks : addTorrentError(t)
    \/ \E t \in 1..MaxTasks : enabledPluginsReply(t)
    \/ \E t \in 1..MaxTasks : labelReply(t)
    \/ \E t \in 1..MaxTasks : labelError(t)
    \/ \E s \in 1..MaxSessions : invalidate(s)
    \/ \E t \in 1..MaxTasks : validateConfigResume(t)
    \/ \E t \in 1..MaxTasks : sendCallResume(t)
    \/ \E t \in 1..MaxTasks : checkCompletedResume(t)
    \/ \E t \in 1..MaxTasks : injectResume(t)
    \/ \E t \in 1..MaxTasks : setLabelResume(t)
    \/ \E t \in 1..MaxTasks : labelEnabledResume(t)

Spec == Init /\ [][Next]_vars

TypeOK ==
    /\ msgId \in 0..MsgIdCeiling
    /\ Len(wire) <= 6 * MaxTasks
    /\ loggedIn \in BOOLEAN
    /\ delugeCookie \in 0..MaxSessions
    /\ enLabeled \in 0..MaxTasks
    /\ Len(tasks) <= MaxTasks

\* ---- specification of the adapter near the wrap of msgId ---------------------
WrapWindow == 2   \* how far below the ceiling the counter stands at the start

\* the settled promise of a labelEnabled() that found the Label plugin
LabelledPromise == Return(NewTask("labelEnabled", "none", NoHash, 0), "true")

\* an adapter that has been in use: validateConfig has logged in and found
\* the Label plugin, and the requests sent since have brought msgId close to
\* the ceiling; the operations that sent them are over and left out
InitWrap ==
    /\ FilterIdle
    /\ BatchIdle
    /\ StampIdle
    /\ msgId \in (MsgIdCeiling - WrapWindow)..MsgIdCeiling
    /\ wire = <<>>
    /\ loggedIn = TRUE
    /\ delugeCookie = 1
    /\ delugeWebUrl = [username |-> FALSE, password |-> TRUE]
    /\ enLabeled = 1
    /\ tasks = <<LabelledPromise>>
    /\ validSessions = {1}
    /\ sessionCount = 1
    /\ lostSessions = {}
    /\ added = {}
    /\ plugins = <<"Label">>

SpecWrap == InitWrap /\ [][Next]_vars

\* ---- preFilter: filterByContent -------------------------------------------
\* EP_REGEX, SEASON_REGEX and VIDEO_EXTENSIONS come from constants.js: a name
\* is an episode when a season token is followed by an episode token, a
\* season pack when a season token is followed by something else.
EP_REGEX(name) ==
    \E i \in 2..(Len(name) - 1) :
        name[i] \in SeasonTokens /\ name[i + 1] \in EpisodeTokens

SEASON_REGEX(name) ==
    \E i \in 2..(Len(name) - 1) :
        name[i] \in SeasonTokens /\ name[i + 1] \notin EpisodeTokens

VIDEO_EXTENSIONS == {".mkv", ".mp4", ".avi"}

ExtensionTokens == {".mkv", ".MKV", ".nfo"}

\* path.extname: the last "."-token, unless the name starts with it
extname(fileName) ==
    IF Len(fileName) >= 2 /\ fileName[Len(fileName)] \in ExtensionTokens
    THEN fileName[Len(fileName)]
    ELSE ""

\* path.dirname: the path without its last component, "." when nothing is left
dirname(path) ==
    IF Len(path) <= 1 THEN << <<".">> >> ELSE SubSeq(path, 1, Len(path) - 1)

\* path.basename: the last component
basename(path) == path[Len(path)]

\* filterByContent, were it to forget the includeSingleEpisodes opt-in
filterByContentIgnoresSingleEpisodes(s, config) ==
    LET isSingleEpisodeTorrent == Len(s.files) = 1 /\ EP_REGEX(s.name)
        isSeasonPackEpisode ==
            /\ s.path # <<>>
            /\ Len(s.files) = 1
            /\ SEASON_REGEX(basename(dirname(s.path)))
        allFilesAreVideos ==
            \A i \in DOMAIN s.files : extname(s.files[i]) \in VIDEO_EXTENSIONS
    IN  IF /\ ~config.includeEpisodes
           /\ isSingleEpisodeTorrent
           /\ ~isSeasonPackEpisode
        THEN "EXCLUDED_SINGLE_EPISODE"
        ELSE IF config.includeSingleEpisodes /\ isSeasonPackEpisode
        THEN "EXCLUDED_SEASON_PACK_EPISODE"
        ELSE IF ~config.includeNonVideos /\ ~allFilesAreVideos
        THEN "EXCLUDED_NON_VIDEOS"
        ELSE "INCLUDED"

\* filterByContent, were it to apply the video rule before the season-pack rule
filterByContentVideoRuleFirst(s, config) ==
    LET isSingleEpisodeTorrent == Len(s.files) = 1 /\ EP_REGEX(s.name)
        isSeasonPackEpisode ==
            /\ s.path # <<>>
            /\ Len(s.files) = 1
            /\ SEASON_REGEX(basename(dirname(s.path)))
        allFilesAreVideos ==
            \A i \in DOMAIN s.files : extname(s.files[i]) \in VIDEO_EXTENSIONS
    IN  IF /\ ~config.includeEpisodes
           /\ ~config.includeSingleEpisodes
           /\ isSingleEpisodeTorrent
           /\ ~isSeasonPackEpisode
        THEN "EXCLUDED_SINGLE_EPISODE"
        ELSE IF ~config.includeNonVideos /\ ~allFilesAreVideos
        THEN "EXCLUDED_NON_VIDEOS"
        ELSE IF config.includeSingleEpisodes /\ isSeasonPackEpisode
        THEN "EXCLUDED_SEASON_PACK_EPISODE"
        ELSE "INCLUDED"

\* filterByContent, were it to leave `!isSeasonPackEpisode` out of its first test
filterByContentForgetsSeasonPack(s, config) ==
    LET isSingleEpisodeTorrent == Len(s.files) = 1 /\ EP_REGEX(s.name)
        isSeasonPackEpisode ==
            /\ s.path # <<>>
            /\ Len(s.files) = 1
            /\ SEASON_REGEX(basename(dirname(s.path)))
        allFilesAreVideos ==
            \A i \in DOMAIN s.files : extname(s.files[i]) \in VIDEO_EXTENSIONS
    IN  IF /\ ~config.includeEpisodes
           /\ ~config.includeSingleEpisodes
           /\ isSingleEpisodeTorrent
        THEN "EXCLUDED_SINGLE_EPISODE"
        ELSE IF config.includeSingleEpisodes /\ isSeasonPackEpisode
        THEN "EXCLUDED_SEASON_PACK_EPISODE"
        ELSE IF ~config.includeNonVideos /\ ~allFilesAreVideos
        THEN "EXCLUDED_NON_VIDEOS"
        ELSE "INCLUDED"

filterByContent(s, config) ==
    LET isSingleEpisodeTorrent == Len(s.files) = 1 /\ EP_REGEX(s.name)
        isSeasonPackEpisode ==
            /\ s.path # <<>>
            /\ Len(s.files) = 1
            /\ SEASON_REGEX(basename(dirname(s.path)))
        allFilesAreVideos ==
            \A i \in DOMAIN s.files : extname(s.files[i]) \in VIDEO_EXTENSIONS
    IN  IF /\ ~config.includeEpisodes
           /\ ~config.includeSingleEpisodes
           /\ isSingleEpisodeTorrent
           /\ ~isSeasonPackEpisode
        THEN "EXCLUDED_SINGLE_EPISODE"
        ELSE IF config.includeSingleEpisodes /\ isSeasonPackEpisode
        THEN "EXCLUDED_SEASON_PACK_EPISODE"
        ELSE IF ~config.includeNonVideos /\ ~allFilesAreVideos
        THEN "EXCLUDED_NON_VIDEOS"
        ELSE "INCLUDED"

\* ---- specification of the pre-filter ----------------------------------------
DelugeIdle ==
    /\ msgId = 0
    /\ wire = <<>>
    /\ loggedIn = FALSE
    /\ delugeCookie = 0
    /\ delugeWebUrl = [username |-> FALSE, password |-> TRUE]
    /\ enLabeled = 0
    /\ tasks = <<>>
    /\ validSessions = {}
    /\ sessionCount = 0
    /\ lostSessions = {}
    /\ added = {}
    /\ plugins = <<"Label">>

InitFilter ==
    /\ DelugeIdle
    /\ BatchIdle
    /\ StampIdle
    /\ searchee \in Searchees
    /\ runtimeConfig \in RuntimeConfigs
    /\ prefilterResult = "none"

\* one call of filterByContent on the searchee
filterByContentCall ==
    /\ prefilterResult = "none"
    /\ prefilterResult' = filterByContent(searchee, runtimeConfig)
    /\ UNCHANGED <<delugeVars, searchee, runtimeConfig, batchVars, stampVars>>

NextFilter == filterByContentCall

SpecFilter == InitFilter /\ [][NextFilter]_vars

\* ---- preFilter: filterDupes ------------------------------------------------
MaxDupes == 3   \* searchees in a batch handed to filterDupes

DupeNames == {<<"Show", "S01", "E01">>, <<"Movie", "2020">>}
DupeHashes == {"h1", "h2"}
\* two locations, to tell searchees of one name and one infoHash apart
DupePaths == {<<>>, << <<"downloads">>, <<"ep", ".mkv">> >>}

DupeSearchees ==
    [name : DupeNames, files : {<< <<"ep", ".mkv">> >>}, path : DupePaths,
     infoHash : DupeHashes \cup {NoHash}]

DupeBatches == UNION {[1..n -> DupeSearchees] : n \in 0..MaxDupes}

\* a log line: its level, and what its message interpolates
LogLine(level, name, count, reason) ==
    [level |-> level, name |-> name, count |-> count, reason |-> reason]

\* a Map is the sequence of its values in insertion order, one per key
mapGet(acc, name) == {i \in DOMAIN acc : acc[i].name = name}

\* Map.set: a new key goes last, an existing key keeps its place
mapSet(acc, cur) ==
    IF mapGet(acc, cur.name) = {}
    THEN Append(acc, cur)
    ELSE [i \in DOMAIN acc |-> IF acc[i].name = cur.name THEN cur ELSE acc[i]]

\* the reducer of filterDupes, were it to let every later infoHash win
reducerLastHashWins(acc, cur) ==
    LET entry == mapGet(acc, cur.name)
    IN  IF entry = {}
        THEN mapSet(acc, cur)
        ELSE IF cur.infoHash # NoHash
        THEN mapSet(acc, cur)
        ELSE acc

\* the callback of searchees.reduce
reducer(acc, cur) ==
    LET entry == mapGet(acc, cur.name)
    IN  IF entry = {}
        THEN mapSet(acc, cur)
        ELSE IF cur.infoHash # NoHash /\ \A i \in entry : acc[i].infoHash = NoHash
        THEN mapSet(acc, cur)
        ELSE acc

\* searchees.reduce(reducer, new Map())
RECURSIVE duplicateMap(_)
duplicateMap(batch) ==
    IF batch = <<>>
    THEN <<>>
    ELSE reducer(duplicateMap(SubSeq(batch, 1, Len(batch) - 1)),
                 batch[Len(batch)])

\* what filterDupes returns and logs
filterDupes(batch) ==
    LET filtered == duplicateMap(batch)
        numDupes == Len(batch) - Len(filtered)
    IN  [output |-> filtered,
         logged |-> IF numDupes > 0
                    THEN <<LogLine("verbose", <<>>, numDupes,
                                   "duplicates not selected for searching")>>
                    ELSE <<>>]

InitDupes ==
    /\ DelugeIdle
    /\ FilterIdle
    /\ StampIdle
    /\ searchees \in DupeBatches
    /\ batchOp = "none"
    /\ output = <<>>
    /\ logged = <<>>

\* one call of filterDupes on the batch
filterDupesCall ==
    /\ batchOp = "none"
    /\ batchOp' = "filterDupes"
    /\ output' = filterDupes(searchees).output
    /\ logged' = filterDupes(searchees).logged
    /\ UNCHANGED <<delugeVars, filterVars, searchees, stampVars>>

NextDupes == filterDupesCall

SpecDupes == InitDupes /\ [][NextDupes]_vars

\* ---- preFilter: filterAllByContent -----------------------------------------
MaxBatch == 6   \* searchees in a batch handed to filterAllByContent

\* one searchee per way filterByContent can look at it: a lone episode, a
\* lone episode in a season-pack directory, a release with a non-video file,
\* a plain video release
BatchSearchees ==
    {[name |-> <<"Show", "S01", "E01">>, files |-> << <<"ep", ".mkv">> >>,
      path |-> <<>>],
     [name |-> <<"Show", "S01", "E01">>, files |-> << <<"ep", ".mkv">> >>,
      path |-> << <<"Show", "S01", "1080p">>, <<"ep", ".mkv">> >>],
     [name |-> <<"Movie", "2020">>,
      files |-> << <<"ep", ".mkv">>, <<"info", ".nfo">> >>, path |-> <<>>],
     [name |-> <<"Movie", "2020">>, files |-> << <<"ep", ".mkv">> >>,
      path |-> << <<"downloads">>, <<"ep", ".mkv">> >>]}

ContentBatches == UNION {[1..n -> BatchSearchees] : n \in 0..MaxBatch}

Exclusions ==
    {"EXCLUDED_NON_VIDEOS", "EXCLUDED_SINGLE_EPISODE",
     "EXCLUDED_SEASON_PACK_EPISODE"}

reasons ==
    [r \in Exclusions |->
        CASE r = "EXCLUDED_NON_VIDEOS" -> "not all files are videos"
          [] r = "EXCLUDED_SINGLE_EPISODE" -> "it is a single episode"
          [] r = "EXCLUDED_SEASON_PACK_EPISODE" -> "it is a season pack episode"]

\* logReason(name, reason)
logReason(name, reason) == LogLine("verbose", name, 0, reason)

\* logExclusionsOfType, were it to log a category whatever its count
logExclusionsOfTypeAnyCount(tally, result) ==
    LET count == tally[result]
    IN  IF count >= 0
        THEN <<LogLine("info", <<>>, count, reasons[result])>>
        ELSE <<>>

\* logExclusionsOfType: the lines it adds to the log
logExclusionsOfType(tally, result) ==
    LET count == tally[result]
    IN  IF count > 0
        THEN <<LogLine("info", <<>>, count, reasons[result])>>
        ELSE <<>>

\* the for loop of filterAllByContent over the first n searchees
RECURSIVE filterLoop(_, _, _)
filterLoop(batch, n, config) ==
    IF n = 0
    THEN [output |-> <<>>, tally |-> [r \in Exclusions |-> 0], logged |-> <<>>]
    ELSE LET before == filterLoop(batch, n - 1, config)
             result == filterByContent(batch[n], config)
         IN  IF result = "INCLUDED"
             THEN [before EXCEPT !.output = Append(@, batch[n])]
             ELSE [before EXCEPT
                     !.logged = Append(@, logReason(batch[n].name,
                                                    reasons[result])),
                     !.tally[result] = @ + 1]

\* what filterAllByContent returns and logs
filterAllByContent(batch, config) ==
    LET done == filterLoop(batch, Len(batch), config)
    IN  [output |-> done.output,
         logged |-> done.logged
                    \o logExclusionsOfType(done.tally, "EXCLUDED_SINGLE_EPISODE")
                    \o logExclusionsOfType(done.tally, "EXCLUDED_SEASON_PACK_EPISODE")
                    \o logExclusionsOfType(done.tally, "EXCLUDED_NON_VIDEOS")]

InitBatch ==
    /\ DelugeIdle
    /\ searchee = NoSearchee
    /\ prefilterResult = "none"
    /\ runtimeConfig \in RuntimeConfigs
    /\ StampIdle
    /\ searchees \in ContentBatches
    /\ batchOp = "none"
    /\ output = <<>>
    /\ logged = <<>>

\* one call of filterAllByContent on the batch
filterAllByContentCall ==
    /\ batchOp = "none"
    /\ batchOp' = "filterAllByContent"
    /\ output' = filterAllByContent(searchees, runtimeConfig).output
    /\ logged' = filterAllByContent(searchees, runtimeConfig).logged
    /\ UNCHANGED <<delugeVars, filterVars, searchees, stampVars>>

NextBatch == filterAllByContentCall

SpecBatch == InitBatch /\ [][NextBatch]_vars

\* ---- preFilter: filterTimestamps --------------------------------------------
\* excludeOlder / excludeRecentSearch not configured: typeof is not "number"
NoDuration == -1

Durations == 0..MaxDuration

TimestampConfigs ==
    [excludeOlder : Durations \cup {NoDuration},
     excludeRecentSearch : Durations \cup {NoDuration}]

\* 9223372036854775807: later than every time of the model
Int64Max == MaxTime + 1

\* SQL coalesce(v, d) and min(): NULL over no rows
coalesce(v, d) == IF v = SqlNull THEN d ELSE v
min(S) == IF S = {} THEN SqlNull ELSE CHOOSE v \in S : \A w \in S : v <= w
max(S) == IF S = {} THEN SqlNull ELSE CHOOSE v \in S : \A w \in S : v >= w

\* truthiness of a number or null
TruthyNumber(v) == v \notin {SqlNull, 0}

\* nMsAgo (utils.js)
nMsAgo(clock, n) == clock - n

\* the query, were it to leave out whereIn("indexer.id", enabled ids)
timestampDataSqlAllIndexers(enabled, hasRow, rows) ==
    LET joined == IF hasRow THEN Indexers ELSE {}
    IN  [first_searched_any |->
            min({coalesce(rows[i].first_searched, Int64Max) : i \in joined}),
         last_searched_all |->
            min({coalesce(rows[i].last_searched, 0) : i \in joined})]

\* the query, were last_searched_all the max of the last-search times
timestampDataSqlLatest(enabled, hasRow, rows) ==
    LET joined == IF hasRow THEN Indexers \cap enabled ELSE {}
    IN  [first_searched_any |->
            min({coalesce(rows[i].first_searched, Int64Max) : i \in joined}),
         last_searched_all |->
            max({coalesce(rows[i].last_searched, 0) : i \in joined})]

\* the query: the searchee's row joined with every enabled indexer and with
\* that indexer's timestamp row if there is one, then aggregated
timestampDataSql(enabled, hasRow, rows) ==
    LET joined == IF hasRow THEN Indexers \cap enabled ELSE {}
    IN  [first_searched_any |->
            min({coalesce(rows[i].first_searched, Int64Max) : i \in joined}),
         last_searched_all |->
            min({coalesce(rows[i].last_searched, 0) : i \in joined})]

OlderReason == "its first search timestamp is older"
RecentReason == "its last search timestamp is newer"

\* filterTimestamps, were its first test to use <=
filterTimestampsInclusive(name, config, enabled, hasRow, rows, clock) ==
    LET data == timestampDataSql(enabled, hasRow, rows)
        first_searched_any == data.first_searched_any
        last_searched_all == data.last_searched_all
    IN  IF /\ config.excludeOlder # NoDuration
           /\ TruthyNumber(first_searched_any)
           /\ first_searched_any <= nMsAgo(clock, config.excludeOlder)
        THEN [eligible |-> "false",
              logged |-> <<LogLine("verbose", name, first_searched_any,
                                   OlderReason)>>]
        ELSE IF /\ config.excludeRecentSearch # NoDuration
                /\ TruthyNumber(last_searched_all)
                /\ last_searched_all > nMsAgo(clock, config.excludeRecentSearch)
        THEN [eligible |-> "false",
              logged |-> <<LogLine("verbose", name, last_searched_all,
                                   RecentReason)>>]
        ELSE [eligible |-> "true", logged |-> <<>>]

\* what filterTimestamps resolves to and logs
filterTimestamps(name, config, enabled, hasRow, rows, clock) ==
    LET data == timestampDataSql(enabled, hasRow, rows)
        first_searched_any == data.first_searched_any
        last_searched_all == data.last_searched_all
    IN  IF /\ config.excludeOlder # NoDuration
           /\ TruthyNumber(first_searched_any)
           /\ first_searched_any < nMsAgo(clock, config.excludeOlder)
        THEN [eligible |-> "false",
              logged |-> <<LogLine("verbose", name, first_searched_any,
                                   OlderReason)>>]
        ELSE IF /\ config.excludeRecentSearch # NoDuration
                /\ TruthyNumber(last_searched_all)
                /\ last_searched_all > nMsAgo(clock, config.excludeRecentSearch)
        THEN [eligible |-> "false",
              logged |-> <<LogLine("verbose", name, last_searched_all,
                                   RecentReason)>>]
        ELSE [eligible |-> "true", logged |-> <<>>]

\* a timestamp row exists only for a searchee the searchee table holds
InitTimestamps ==
    /\ DelugeIdle
    /\ searchee = [name |-> <<"Movie", "2020">>,
                   files |-> << <<"ep", ".mkv">> >>, path |-> <<>>]
    /\ prefilterResult = "none"
    /\ runtimeConfig \in TimestampConfigs
    /\ BatchIdle
    /\ enabledIndexers \in SUBSET Indexers
    /\ searcheeRow \in BOOLEAN
    /\ timestampRows \in [Indexers -> TimestampRows \cup {NoRow}]
    /\ searcheeRow = FALSE => timestampRows = [i \in Indexers |-> NoRow]
    /\ now = MaxTime
    /\ eligible = "none"

\* one call of filterTimestamps on the searchee; nothing in these sources
\* writes the tables between its two awaits
filterTimestampsCall ==
    /\ eligible = "none"
    /\ LET r == filterTimestamps(searchee.name, runtimeConfig, enabledIndexers,
                                 searcheeRow, timestampRows, now)
       IN  /\ eligible' = r.eligible
           /\ logged' = logged \o r.logged
    /\ UNCHANGED <<delugeVars, filterVars, searchees, batchOp, output,
                   enabledIndexers, searcheeRow, timestampRows, now>>

NextTimestamps == filterTimestampsCall

SpecTimestamps == InitTimestamps /\ [][NextTimestamps]_vars

\* ---- properties: vocabulary --------------------------------------------------
Injects == {t \in DOMAIN tasks : tasks[t].kind = "inject"}
SetLabels == {t \in DOMAIN tasks : tasks[t].kind = "setLabel"}
Children(t, kind) ==
    {c \in DOMAIN tasks : tasks[c].parent = t /\ tasks[c].kind = kind}
Posted(tk, method) == \E i \in DOMAIN tk.sent : tk.sent[i] = method
Finished(tk) == tk.pc = "done"

\* how the server answered, read off the response alone
Accepted(r) == r.status = "ok" /\ r.error = <<>> /\ r.result = "id"
Duplicate(r) == r.status = "ok" /\ \E i \in DOMAIN r.error : r.error[i] = "already"
UnknownLabel(r) == r.status = "ok" /\ r.error = <<"Unknown", "Label">>
ErrorPayload(r) == r.status = "ok" /\ r.error # <<>>
ReportedNotSeeding(tk) ==
    /\ tk.hash # NoHash
    /\ tk.seen.status = "ok"
    /\ tk.seen.error = <<>>
    /\ tk.seen.torrents[tk.hash] \notin {"absent", "Seeding"}
LookupFailed(tk) ==
    /\ tk.hash # NoHash
    /\ tk.seen.status = "ok"
    /\ (tk.seen.error # <<>> \/ tk.seen.torrents[tk.hash] = "absent")

\* ---- C1 ----------------------------------------------------------------------
\* C1: once the server has dropped the session of a logged-in adapter, a call
\* made through sendCall logs in again: an operation that made such a call and
\* came back with a value has posted auth.login after it.
C1_SessionLossIsFollowedByLogin ==
    \A t \in DOMAIN tasks :
        LET tk == tasks[t]
        IN  (Finished(tk) /\ tk.fault = "none" /\ tk.lostAt > 0)
                => \E j \in (tk.lostAt + 1)..Len(tk.sent) : tk.sent[j] = "auth.login"

\* ---- C2 ----------------------------------------------------------------------
\* C2: an inject whose searchee has an infoHash that the client lists in a
\* state other than "Seeding" returns TORRENT_NOT_COMPLETE and posts neither
\* core.add_torrent_file nor, through setLabel, any label request; an inject
\* whose searchee has no infoHash never posts web.update_ui, never returns
\* TORRENT_NOT_COMPLETE, and posts core.add_torrent_file as its first method
\* (after the login of sendCall, unless that login got no response).
C2_NotSeedingIsNeverSubmitted ==
    \A t \in Injects :
        LET tk == tasks[t]
        IN  /\ ReportedNotSeeding(tk) =>
                /\ Finished(tk)
                /\ tk.fault = "none"
                /\ tk.result = "TORRENT_NOT_COMPLETE"
                /\ ~Posted(tk, "core.add_torrent_file")
                /\ Children(t, "setLabel") = {}
            /\ tk.hash = NoHash =>
                /\ ~Posted(tk, "web.update_ui")
                /\ tk.result # "TORRENT_NOT_COMPLETE"
                /\ \/ Posted(tk, "core.add_torrent_file")
                   \/ tk.pc = "login"
                   \/ tk.fault = "CrossSeedError: Could not reach deluge"

C2_Witness ==
    /\ \E t \in Injects :
          /\ ReportedNotSeeding(tasks[t])
          /\ tasks[t].result = "TORRENT_NOT_COMPLETE"
    /\ \E t \in Injects :
          /\ tasks[t].hash = NoHash
          /\ Posted(tasks[t], "core.add_torrent_file")

\* ---- C3 ----------------------------------------------------------------------
\* C3: when the infoHash is missing from the client's torrent list, or the
\* status reply is an error payload, inject returns TORRENT_NOT_COMPLETE and
\* raises no fault.
C3_LookupFailureIsNotComplete ==
    \A t \in Injects :
        LookupFailed(tasks[t]) =>
            /\ tasks[t].fault = "none"
            /\ tasks[t].result = "TORRENT_NOT_COMPLETE"

\* ---- C4 ----------------------------------------------------------------------
\* C4: of the injects of one torrent at most one returns SUCCESS; when the
\* client accepts one submission and answers another with "already exists",
\* the first returns SUCCESS and the other ALREADY_EXISTS; an inject whose
\* submission the client answered ends in a value, never in a fault.
C4_InjectIdempotent ==
    \A i, j \in Injects :
        (i # j /\ tasks[i].torrent = tasks[j].torrent) =>
            /\ ~(tasks[i].result = "SUCCESS" /\ tasks[j].result = "SUCCESS")
            /\ (Accepted(tasks[i].addReply) /\ Duplicate(tasks[j].addReply)) =>
                  /\ tasks[i].result = "SUCCESS"
                  /\ tasks[j].result = "ALREADY_EXISTS"
            /\ tasks[j].addReply.status = "ok" =>
                  /\ tasks[j].fault = "none"
                  /\ tasks[j].result \in {"SUCCESS", "ALREADY_EXISTS", "FAILURE"}

C4_Witness ==
    \E i, j \in Injects :
        /\ i < j
        /\ tasks[i].torrent = tasks[j].torrent
        /\ tasks[i].result = "SUCCESS"
        /\ tasks[j].result = "ALREADY_EXISTS"

\* ---- C5 ----------------------------------------------------------------------
\* C5: the reply to the submission alone decides what inject returns: a
\* success result gives SUCCESS and starts setLabel for the new torrent's
\* infoHash, an error naming "already" gives ALREADY_EXISTS, any other error
\* gives FAILURE; this holds whatever becomes of the setLabel it started.
C5_ReplyDecidesResult ==
    \A t \in Injects :
        LET tk == tasks[t]
            r == tk.addReply
        IN  r.status = "ok" =>
                /\ Finished(tk)
                /\ tk.fault = "none"
                /\ tk.result = IF Accepted(r) THEN "SUCCESS"
                               ELSE IF Duplicate(r) THEN "ALREADY_EXISTS"
                               ELSE "FAILURE"
                /\ Accepted(r) =>
                      /\ Cardinality(Children(t, "setLabel")) = 1
                      /\ \A c \in Children(t, "setLabel") :
                            tasks[c].torrent = tk.torrent
                /\ ~Accepted(r) => Children(t, "setLabel") = {}

C5_Witness ==
    \E t \in Injects :
        /\ tasks[t].result = "SUCCESS"
        /\ \E c \in Children(t, "setLabel") :
              Finished(tasks[c]) /\ tasks[c].fault # "none"

\* ---- C6 ----------------------------------------------------------------------
\* C6: when the server's enabled plugins do not include Label, a setLabel
\* that runs after validateConfig has learnt so (the enLabeled promise has
\* resolved to false) posts no label request and returns false.
C6_NoLabelPluginNoLabelRequests ==
    ~includes(plugins, <<"Label">>) =>
        \A t \in SetLabels :
            tasks[t].guard = "false" =>
                /\ labelRequests(tasks[t]) = <<>>
                /\ Finished(tasks[t])
                /\ tasks[t].result = "false"

\* ---- C7 ----------------------------------------------------------------------
LabelSequence == <<"label.set_torrent", "label.add", "label.set_torrent">>

\* C7 as stated: a setLabel that acts posts exactly one label request, or
\* exactly the three of the create-then-retry sequence.
C7_OneOrThreeLabelRequests ==
    \A t \in SetLabels :
        (Finished(tasks[t]) /\ tasks[t].result # "false") =>
            labelRequests(tasks[t]) \in {<<"label.set_torrent">>, LabelSequence}

\* C7 as amended: the label requests of one setLabel are a prefix of
\* label.set_torrent, label.add, label.set_torrent; label.add follows only an
\* unknown-label reply to the first label.set_torrent; a setLabel that returns
\* true has posted one request, or all three when the label was unknown;
\* it stops short (none, or two) only when a call of its got no response.
C7_LabelRequestsBounded ==
    \A t \in SetLabels :
        LET tk == tasks[t]
            reqs == labelRequests(tk)
        IN  /\ Len(reqs) <= 3
            /\ reqs = SubSeq(LabelSequence, 1, Len(reqs))
            /\ Len(reqs) >= 2 => UnknownLabel(tk.seen)
            /\ (Finished(tk) /\ tk.result = "true") =>
                  Len(reqs) = IF UnknownLabel(tk.seen) THEN 3 ELSE 1
            /\ (Finished(tk) /\ tk.result # "true") =>
                  \/ tk.result = "false" /\ reqs = <<>> /\ tk.sent = <<>>
                  \/ tk.fault # "none" /\ tk.resp.status = "null"

C7_Witness ==
    \E t \in SetLabels :
        /\ Finished(tasks[t])
        /\ tasks[t].result = "true"
        /\ labelRequests(tasks[t]) = LabelSequence
        /\ UnknownLabel(tasks[t].resp)

\* ---- C8 ----------------------------------------------------------------------
\* C8: no method other than auth.login is posted while loggedIn is false: a
\* login that was rejected aborts the operation.
C8_NoCallWhileUnauthenticated ==
    \A t \in DOMAIN tasks : ~tasks[t].sentUnauth

\* ---- C9 ----------------------------------------------------------------------
\* C9: an operation whose call through sendCall got no response ends in the
\* "Could not reach deluge" CrossSeedError, and sendCall hands a reply with a
\* non-null error field to its caller as the error payload, without a fault.
\* Stated for the calls outside the try block of checkCompleted, whose catch
\* block replaces whatever sendCall throws.
C9_NoResponseIsConnectivityError ==
    \A t \in DOMAIN tasks :
        LET tk == tasks[t]
        IN  (tk.kind # "validateConfig" /\ tk.method # "web.update_ui") =>
                /\ (Finished(tk) /\ tk.resp.status = "null") =>
                      tk.fault = "CrossSeedError: Could not reach deluge"
                /\ (tk.pc = "call" /\ ErrorPayload(tk.resp)) =>
                      /\ sendCallReturn(tk.resp).fault = "none"
                      /\ sendCallReturn(tk.resp).message = tk.resp.error

\* ---- C10 ---------------------------------------------------------------------
\* the searchee lies directly in a directory named like a season pack
InSeasonPackDirectory(s) ==
    /\ Len(s.path) >= 2
    /\ SEASON_REGEX(s.path[Len(s.path) - 1])

\* C10: a searchee of exactly one file, with an episode name, outside any
\* season-pack directory (or without a path) is EXCLUDED_SINGLE_EPISODE when
\* includeEpisodes and includeSingleEpisodes are both off, whatever
\* includeNonVideos and the file's extension; with either flag on it is not.
C10_SingleEpisodeRule ==
    (/\ prefilterResult # "none"
     /\ Len(searchee.files) = 1
     /\ EP_REGEX(searchee.name)
     /\ ~InSeasonPackDirectory(searchee)) =>
        (prefilterResult = "EXCLUDED_SINGLE_EPISODE"
            <=> (~runtimeConfig.includeEpisodes
                    /\ ~runtimeConfig.includeSingleEpisodes))

C10_Witness ==
    /\ prefilterResult = "EXCLUDED_SINGLE_EPISODE"
    /\ searchee.path = <<>>
    /\ runtimeConfig.includeNonVideos
    /\ extname(searchee.files[1]) \notin VIDEO_EXTENSIONS

\* ---- C11 ---------------------------------------------------------------------
\* C11: a searchee of exactly one file, with an episode name, lying in a
\* season-pack directory is EXCLUDED_SEASON_PACK_EPISODE whenever
\* includeSingleEpisodes is on, whatever includeEpisodes, includeNonVideos and
\* the file's extension.
C11_SeasonPackEpisodeRule ==
    (/\ prefilterResult # "none"
     /\ Len(searchee.files) = 1
     /\ EP_REGEX(searchee.name)
     /\ InSeasonPackDirectory(searchee)
     /\ runtimeConfig.includeSingleEpisodes) =>
        prefilterResult = "EXCLUDED_SEASON_PACK_EPISODE"

C11_Witness ==
    /\ prefilterResult = "EXCLUDED_SEASON_PACK_EPISODE"
    /\ EP_REGEX(searchee.name)
    /\ InSeasonPackDirectory(searchee)
    /\ ~runtimeConfig.includeNonVideos
    /\ ~runtimeConfig.includeEpisodes
    /\ extname(searchee.files[1]) \notin VIDEO_EXTENSIONS

\* ---- C12 ---------------------------------------------------------------------
\* positions of the searchees of a name in a batch, and the least of a set
NamedAt(batch, name) == {j \in DOMAIN batch : batch[j].name = name}
Least(S) == CHOOSE j \in S : \A k \in S : j <= k

\* the searchee of a name that is to survive: the first one carrying an
\* infoHash if there is one, else the first one
Survivor(batch, name) ==
    LET hashed == {j \in NamedAt(batch, name) : batch[j].infoHash # NoHash}
    IN  IF hashed # {} THEN batch[Least(hashed)]
                       ELSE batch[Least(NamedAt(batch, name))]

\* C12: filterDupes returns exactly one searchee per distinct name of the
\* batch, namely the first one of that name carrying an infoHash or, when no
\* searchee of that name carries one, the first of that name; the survivors
\* come in the order in which their names first appear in the batch.
C12_DuplicateResolution ==
    batchOp = "filterDupes" =>
        /\ {output[i].name : i \in DOMAIN output}
              = {searchees[j].name : j \in DOMAIN searchees}
        /\ \A i, k \in DOMAIN output :
              i < k => /\ output[i].name # output[k].name
                       /\ Least(NamedAt(searchees, output[i].name))
                             < Least(NamedAt(searchees, output[k].name))
        /\ \A i \in DOMAIN output :
              output[i] = Survivor(searchees, output[i].name)

\* a hash-less searchee is superseded by the first of two later ones that
\* carry an infoHash
C12_Witness ==
    /\ batchOp = "filterDupes"
    /\ Len(searchees) = 3
    /\ \A j \in 1..3 : searchees[j].name = searchees[1].name
    /\ searchees[1].infoHash = NoHash
    /\ searchees[2].infoHash = "h1"
    /\ searchees[3].infoHash = "h2"
    /\ output = <<searchees[2]>>

\* ---- C13, C14, C15: vocabulary ---------------------------------------------------
\* the enabled indexers on which the searchee has been searched
SearchedOn ==
    {i \in enabledIndexers \cap Indexers :
        searcheeRow /\ timestampRows[i] # NoRow}
\* the enabled indexers the query can join the searchee with
JoinedWith == IF searcheeRow THEN enabledIndexers \cap Indexers ELSE {}

Decided == eligible # "none"
LoggedReason(reason) == \E i \in DOMAIN logged : logged[i].reason = reason

\* ---- C13 ---------------------------------------------------------------------
\* C13: a searchee that has no timestamp row for any enabled indexer (no
\* rows at all, no enabled indexer, or rows for disabled indexers only) is
\* eligible whatever excludeOlder and excludeRecentSearch are.
C13_NeverSearchedIsEligible ==
    (Decided /\ SearchedOn = {}) => (eligible = "true" /\ logged = <<>>)

\* searched long ago and just now, but only on a disabled indexer, with both
\* windows configured
C13_Witness ==
    /\ eligible = "true"
    /\ enabledIndexers = {1}
    /\ timestampRows[1] = NoRow
    /\ timestampRows[2] = [first_searched |-> 1, last_searched |-> MaxTime]
    /\ runtimeConfig = [excludeOlder |-> 0, excludeRecentSearch |-> 1]

\* ---- C14 ---------------------------------------------------------------------
LastSearches == {timestampRows[i].last_searched : i \in SearchedOn}
Latest(S) == CHOOSE v \in S : \A w \in S : v >= w
Earliest(S) == CHOOSE v \in S : \A w \in S : v <= w

\* C14 as stated: whenever excludeRecentSearch is configured and the latest
\* last-search time on any enabled indexer is newer than now minus that
\* duration, the searchee is not eligible, even if other enabled indexers
\* have never searched it.
C14_LatestSearchDecidesRecentRule ==
    (/\ Decided
     /\ runtimeConfig.excludeRecentSearch # NoDuration
     /\ LastSearches # {}
     /\ Latest(LastSearches) > now - runtimeConfig.excludeRecentSearch) =>
        eligible = "false"

\* every enabled indexer has searched the searchee more recently than d ago
AllSearchedWithin(d) ==
    /\ JoinedWith # {}
    /\ \A i \in JoinedWith :
          /\ i \in SearchedOn
          /\ timestampRows[i].last_searched > now - d

\* C14 amended: last_searched_all is the earliest last-search time among the
\* enabled indexers, an indexer that never searched counting as the epoch;
\* with excludeRecentSearch configured the searchee is not eligible whenever
\* every enabled indexer has searched it more recently than now minus that
\* duration, and the recent rule excludes it in no other case.
C14_EarliestSearchDecidesRecentRule ==
    (Decided /\ runtimeConfig.excludeRecentSearch # NoDuration) =>
        /\ AllSearchedWithin(runtimeConfig.excludeRecentSearch) =>
              eligible = "false"
        /\ LoggedReason(RecentReason) =>
              AllSearchedWithin(runtimeConfig.excludeRecentSearch)

C14_Witness ==
    /\ eligible = "false"
    /\ LoggedReason(RecentReason)
    /\ Cardinality(SearchedOn) = 2
    /\ Earliest(LastSearches) # Latest(LastSearches)

\* ---- C15 ---------------------------------------------------------------------
FirstSearches == {timestampRows[i].first_searched : i \in SearchedOn}

\* C15: with excludeOlder configured the older rule excludes the searchee
\* exactly when it has been searched on an enabled indexer and its earliest
\* first-search time is strictly earlier than now minus excludeOlder; at the
\* boundary it is eligible unless the recent rule excludes it.
C15_OlderRule ==
    (Decided /\ runtimeConfig.excludeOlder # NoDuration) =>
        LET boundary == now - runtimeConfig.excludeOlder
        IN  /\ LoggedReason(OlderReason) <=>
                  (FirstSearches # {} /\ Earliest(FirstSearches) < boundary)
            /\ LoggedReason(OlderReason) => eligible = "false"
            /\ (/\ FirstSearches # {}
                /\ Earliest(FirstSearches) = boundary
                /\ ~LoggedReason(RecentReason)) => eligible = "true"
            /\ eligible = "false" =>
                  (LoggedReason(OlderReason) \/ LoggedReason(RecentReason))

\* first searched exactly excludeOlder ago, on the earlier of two indexers
C15_Witness ==
    /\ eligible = "true"
    /\ runtimeConfig.excludeOlder = MaxDuration
    /\ Cardinality(SearchedOn) = 2
    /\ Earliest(FirstSearches) = now - runtimeConfig.excludeOlder
    /\ Earliest(FirstSearches) # Latest(FirstSearches)

\* ---- C16 ---------------------------------------------------------------------
\* positions of the batch that filterByContent classifies as r
ClassifiedAs(r) ==
    {j \in DOMAIN searchees :
        filterByContent(searchees[j], runtimeConfig) = r}

IsIncluded(s) == filterByContent(s, runtimeConfig) = "INCLUDED"
IsIndividual(line) == line.level = "verbose"
IsAggregate(line) == line.level = "info"

\* C16: filterAllByContent returns the searchees classified INCLUDED, in
\* input order; it logs one individual line per excluded searchee, in input
\* order, and after all of them one aggregate line per category that
\* excluded at least one searchee, carrying that category's count, and none
\* for the other categories; the length of the result plus the counts of the
\* aggregate lines is the length of the batch.
C16_BatchFilterDriver ==
    batchOp = "filterAllByContent" =>
        LET excluded == SelectSeq(searchees, LAMBDA s : ~IsIncluded(s))
            individual == SelectSeq(logged, IsIndividual)
            aggregate == SelectSeq(logged, IsAggregate)
            counts == [r \in Exclusions |->
                          {aggregate[i].count :
                              i \in {k \in DOMAIN aggregate :
                                        aggregate[k].reason = reasons[r]}}]
        IN  /\ output = SelectSeq(searchees, IsIncluded)
            /\ logged = individual \o aggregate
            /\ Len(individual) = Len(excluded)
            /\ \A i \in DOMAIN individual :
                  /\ individual[i].name = excluded[i].name
                  /\ individual[i].reason
                        = reasons[filterByContent(excluded[i], runtimeConfig)]
            /\ Len(aggregate)
                  = Cardinality({r \in Exclusions : ClassifiedAs(r) # {}})
            /\ \A r \in Exclusions :
                  counts[r] = IF ClassifiedAs(r) # {}
                              THEN {Cardinality(ClassifiedAs(r))} ELSE {}
            /\ Len(output) + Len(individual) = Len(searchees)

\* three non-video and two single-episode exclusions and one inclusion: two
\* aggregate lines, with counts 2 and 3
C16_Witness ==
    /\ batchOp = "filterAllByContent"
    /\ Len(searchees) = 6
    /\ Len(output) = 1
    /\ Cardinality(ClassifiedAs("EXCLUDED_NON_VIDEOS")) = 3
    /\ Cardinality(ClassifiedAs("EXCLUDED_SINGLE_EPISODE")) = 2
    /\ SelectSeq(logged, IsAggregate)
          = <<LogLine("info", <<>>, 2, "it is a single episode"),
              LogLine("info", <<>>, 3, "not all files are videos")>>

\* ---- C17 ---------------------------------------------------------------------
\* C17: the stored counter lies in 0..1024; every id on the wire lies in
\* 1..1025; each request's id is the previous request's id plus one, except
\* that the request after the one with id 1025 carries id 1; and the stored
\* counter is the id of the last request, or 0 after id 1025.
C17_MessageSequencing ==
    /\ msgId \in 0..MsgIdCeiling
    /\ \A i \in DOMAIN wire : wire[i] \in 1..(MsgIdCeiling + 1)
    /\ \A i \in 1..(Len(wire) - 1) :
          wire[i + 1] = IF wire[i] = MsgIdCeiling + 1 THEN 1 ELSE wire[i] + 1
    /\ wire # <<>> =>
          msgId = IF wire[Len(wire)] = MsgIdCeiling + 1 THEN 0
                  ELSE wire[Len(wire)]

\* the counter has wrapped and gone on: ..., 1025, 1, 2
C17_Witness ==
    \E i \in 1..(Len(wire) - 2) :
        /\ wire[i] = MsgIdCeiling + 1
        /\ wire[i + 1] = 1
        /\ wire[i + 2] = 2
        /\ msgId = wire[Len(wire)]

\* ---- C18 ---------------------------------------------------------------------
\* the server answered the probe of task tk: the session is not valid
NegativeProbe(tk) ==
    /\ tk.sent = <<"auth.check_session">>
    /\ tk.resp.status = "ok"
    /\ tk.resp.result = "false"

\* C18: a validateConfig whose authenticate probed the session with
\* auth.check_session and was answered that the session is not valid ends
\* with authenticate returning false, that is, it fails to authenticate.
C18_NegativeProbeClearsSession ==
    \A t \in DOMAIN tasks :
        (/\ tasks[t].kind = "validateConfig"
         /\ Finished(tasks[t])
         /\ NegativeProbe(tasks[t])) =>
            tasks[t].fault = "CrossSeedError: failed to authenticate"

\* ---- C19 ---------------------------------------------------------------------
\* the requests of all tasks: (task, position in its sent)
AllRequests ==
    UNION {{<<t, i>> : i \in DOMAIN tasks[t].ids} : t \in DOMAIN tasks}
IdOf(r) == tasks[r[1]].ids[r[2]]
\* where on the wire an id went out
WirePosition(id) == CHOOSE i \in DOMAIN wire : wire[i] = id

\* C19: whatever the interleaving of the callers, every request of every
\* task has an id of its own, every id on the wire belongs to one request,
\* and the ids advance by one per request around the cycle 1..1025
\* whichever task posts, so that requests fewer than 1025 apart carry
\* pairwise distinct ids.
C19_NoLostUpdates ==
    /\ \A r, q \in AllRequests : r # q => IdOf(r) # IdOf(q)
    /\ {IdOf(r) : r \in AllRequests} = {wire[i] : i \in DOMAIN wire}
    /\ Cardinality(AllRequests) = Len(wire)
    /\ \A i, j \in DOMAIN wire :
          i < j => wire[j] = ((wire[i] - 1 + (j - i)) % (MsgIdCeiling + 1)) + 1
    /\ \A i, j \in DOMAIN wire :
          (i < j /\ j - i < MsgIdCeiling + 1) => wire[i] # wire[j]

\* an inject posts between two label requests of the setLabel an earlier
\* inject started, while the counter wraps
C19_Witness ==
    \E s \in SetLabels, b \in Injects :
        /\ tasks[s].parent # b
        /\ Len(tasks[s].ids) >= 2
        /\ \E k \in DOMAIN tasks[b].ids :
              /\ WirePosition(tasks[s].ids[1]) < WirePosition(tasks[b].ids[k])
              /\ WirePosition(tasks[b].ids[k]) < WirePosition(tasks[s].ids[2])
        /\ \E i \in DOMAIN wire : wire[i] = MsgIdCeiling + 1
        /\ \E i \in DOMAIN wire : wire[i] = 1

\* ---- C20 ---------------------------------------------------------------------
\* the video-extension rule on its own
VideoRule(s, config) ==
    IF config.includeNonVideos
       \/ \A i \in DOMAIN s.files : extname(s.files[i]) \in VIDEO_EXTENSIONS
    THEN "INCLUDED"
    ELSE "EXCLUDED_NON_VIDEOS"

\* C20: a single-file searchee in a season-pack directory is never
\* EXCLUDED_SINGLE_EPISODE; EXCLUDED_SEASON_PACK_EPISODE is returned only with
\* includeSingleEpisodes on; with includeSingleEpisodes off such a searchee
\* is classified by the video-extension rule alone.
C20_SeasonPackEpisodeIsNotSingleEpisode ==
    prefilterResult # "none" =>
        /\ (Len(searchee.files) = 1 /\ InSeasonPackDirectory(searchee)) =>
              prefilterResult # "EXCLUDED_SINGLE_EPISODE"
        /\ prefilterResult = "EXCLUDED_SEASON_PACK_EPISODE" =>
              runtimeConfig.includeSingleEpisodes
        /\ (/\ Len(searchee.files) = 1
            /\ InSeasonPackDirectory(searchee)
            /\ ~runtimeConfig.includeSingleEpisodes) =>
              prefilterResult = VideoRule(searchee, runtimeConfig)

C20_Witness ==
    /\ prefilterResult = "INCLUDED"
    /\ Len(searchee.files) = 1
    /\ EP_REGEX(searchee.name)
    /\ InSeasonPackDirectory(searchee)
    /\ ~runtimeConfig.includeSingleEpisodes
    /\ ~runtimeConfig.includeEpisodes
    /\ ~runtimeConfig.includeNonVideos

====
